---------------------------- MODULE Spec2Model ----------------------------
(***************************************************************************)
(* The "Analyze Location" handler of appmake2.py: the Sentinel-2 NDVI      *)
(* composite, its zonal mean, the health classification, the four          *)
(* OpenLandMap soil fetches and the marker text.                           *)
(*                                                                         *)
(* Numbers are fixed-point integers with FracDigits decimal digits         *)
(* (0.5 is 5 * 10^(FracDigits-1)).  An optional number (a Python float or  *)
(* None) is a record [present, val].  A remote call (getInfo) takes its    *)
(* outcome from the variable source, the state of the raster service.      *)
(***************************************************************************)
EXTENDS Integers, Sequences, FiniteSets, TLC

\* ------------------------------------------------------------------ bounds
\* decimal digits kept by the fixed-point numbers of the model
FracDigits == 4
\* largest number of images in the Sentinel-2 collection
MaxImages == 2

\* --------------------------------------------------------------- numbers
RECURSIVE Pow10(_)
Pow10(n) == IF n = 0 THEN 1 ELSE 10 * Pow10(n - 1)

\* the fixed-point image of 1.0
Unit == Pow10(FracDigits)

\* tenths(7) is 0.7, hundredths(62) is 0.62, tenThousandths(6789) is 0.6789
Tenths(n) == n * Pow10(FracDigits - 1)
Hundredths(n) == n * Pow10(FracDigits - 2)
TenThousandths(n) == n * Pow10(FracDigits - 4)

None == [present |-> FALSE, val |-> 0]
Some(v) == [present |-> TRUE, val |-> v]

Abs(v) == IF v < 0 THEN 0 - v ELSE v

\* ------------------------------------------------- float formatting (:.Nf)
DigitChars == <<"0", "1", "2", "3", "4", "5", "6", "7", "8", "9">>

RECURSIVE NatStr(_)
NatStr(n) == IF n < 10 THEN DigitChars[n + 1]
             ELSE NatStr(n \div 10) \o DigitChars[(n % 10) + 1]

\* n written with exactly w digits, zero-padded on the left
RECURSIVE PadStr(_, _)
PadStr(n, w) == IF w = 0 THEN ""
                ELSE PadStr(n \div 10, w - 1) \o DigitChars[(n % 10) + 1]

\* a >= 0 with its last `drop` digits rounded away.  Python formats the
\* exact binary value of the float, correctly rounded, ties to even; a
\* decimal tie of the fixed-point value is rounded to even here as well.
RoundHalfEven(a, drop) ==
    IF drop = 0 THEN a
    ELSE LET p == Pow10(drop)
             q == a \div p
             r == a % p
         IN  IF 2 * r > p \/ (2 * r = p /\ q % 2 = 1) THEN q + 1 ELSE q

\* f"{v:.<places>f}" ; the sign of a negative value is kept even when the
\* digits round to zero ("-0.000")
FormatFixed(v, places) ==
    LET q == RoundHalfEven(Abs(v), FracDigits - places)
        p == Pow10(places)
    IN  (IF v < 0 THEN "-" ELSE "") \o NatStr(q \div p) \o "." \o PadStr(q % p, places)

\* variant: the index formatted with :.2f
FormatNdviShort(v) == FormatFixed(v, 2)

\* f"{mean_ndvi:.3f}"
FormatNdvi(v) == FormatFixed(v, 3)

\* variant: the reading formatted with :.1f
FormatSoilNumberShort(v) == FormatFixed(v, 1)

\* f"{val:.2f}"
FormatSoilNumber(v) == FormatFixed(v, 2)


\* ------------------------------------------------------ program constants
\* ee.Filter.lt("CLOUDY_PIXEL_PERCENTAGE", 10)
CloudThreshold == 10
\* point.buffer(30), scale=10 of the vegetation reduction
NdviBuffer == 30
NdviScale == 10
\* buffer=250, scale=250 defaults of get_soil_value
SoilBuffer == 250
SoilScale == 250

\* mean_ndvi > 0.5 and mean_ndvi > 0.2
HealthyThreshold == Tenths(5)
ModerateThreshold == Tenths(2)

\* two of the entries of the locations dictionary
Locations == {"Kolkata, West Bengal", "Nagpur, Maharashtra"}

\* calendar days as day numbers; the date_input widgets
StartDates == {1}
EndDates == {2, 3}

\* the four soil properties in the order the handler reads them:
\* dictionary key, asset id, band
SoilProps == <<
    [key |-> "Organic Carbon (g/kg)",
     asset |-> "OpenLandMap/SOL/SOL_ORGANIC-CARBON_USDA-6A1C_M/v02",
     band |-> "ocd_usda.6a1c_m_sl1_250m"],
    [key |-> "Soil pH (H2O)",
     asset |-> "OpenLandMap/SOL/SOL_PH-H2O_USDA-4C1A2A_M/v02",
     band |-> "phh2o_usda.4c1a2a_m_sl1_250m"],
    [key |-> "Sand Fraction (%)",
     asset |-> "OpenLandMap/SOL/SOL_SAND-Content_USDA-3A1A1A_M/v02",
     band |-> "sand_usda.3a1a1a_m_sl1_250m"],
    [key |-> "Clay Fraction (%)",
     asset |-> "OpenLandMap/SOL/SOL_CLAY-Content_USDA-3A1A1A_M/v02",
     band |-> "clay_usda.3a1a1a_m_sl1_250m"] >>

PropIds == 1..Len(SoilProps)

\* ------------------------------------------ the Sentinel-2 filter chain
\* An image of COPERNICUS/S2_SR: the location its footprint covers, its
\* acquisition day, its CLOUDY_PIXEL_PERCENTAGE and the B8 / B4 reflectance
\* over the buffer around the point (uniform over the buffer).

\* .filterBounds(point)
FilterBounds(coll, point) == {img \in coll : img.loc = point}

\* .filterDate(start, end): start inclusive, end exclusive
FilterDate(coll, start, end) == {img \in coll : start <= img.date /\ img.date < end}

\* variant: ee.Filter.lte in place of ee.Filter.lt
FilterCloudInclusive(coll) == {img \in coll : img.cloud <= CloudThreshold}

\* .filter(ee.Filter.lt("CLOUDY_PIXEL_PERCENTAGE", 10))
FilterCloud(coll) == {img \in coll : img.cloud < CloudThreshold}

\* s2: the three filters chained
S2Filtered(coll, point, start, end) ==
    FilterCloud(FilterDate(FilterBounds(coll, point), start, end))

\* img.normalizedDifference(["B8", "B4"]): (B8 - B4) / (B8 + B4), masked
\* where the sum is zero
NormalizedDifference(b8, b4) ==
    IF b8 + b4 = 0 THEN None ELSE Some(((b8 - b4) * Unit) \div (b8 + b4))

\* add_ndvi: the image with its NDVI band
AddNdvi(img) == [src |-> img, NDVI |-> NormalizedDifference(img.B8, img.B4)]

\* the image of S with the least / greatest NDVI
MinImage(S) == CHOOSE x \in S : \A y \in S : x.NDVI.val <= y.NDVI.val
MaxImage(S) == CHOOSE x \in S : \A y \in S : y.NDVI.val <= x.NDVI.val

\* the per-pixel median of the unmasked NDVI values of S (S not empty):
\* the middle value, or the mean of the two middle values
RECURSIVE MedianOf(_)
MedianOf(S) ==
    IF Cardinality(S) = 1 THEN (CHOOSE x \in S : TRUE).NDVI.val
    ELSE IF Cardinality(S) = 2
         THEN (MinImage(S).NDVI.val + MaxImage(S).NDVI.val) \div 2
         ELSE LET lo == MinImage(S)
                  hi == MaxImage(S \ {lo})
              IN  MedianOf(S \ {lo, hi})

\* s2.map(add_ndvi).median().select("NDVI"): an empty collection gives an
\* image without bands; a pixel masked in every image stays masked
Composite(s2) ==
    LET withNdvi == {AddNdvi(img) : img \in s2}
        valid == {x \in withNdvi : x.NDVI.present}
    IN  [empty |-> (s2 = {}),
         px |-> IF valid = {} THEN None ELSE Some(MedianOf(valid))]

NoImage == [empty |-> TRUE, px |-> None]

\* ------------------------------------------------- ordered dictionary
\* soil_info is a sequence of <<key, value>> pairs in insertion order
HasKey(d, key) == \E n \in 1..Len(d) : d[n][1] = key

\* d[key] = value: an existing key keeps its place, a new key goes last
DictSet(d, key, value) ==
    IF HasKey(d, key)
    THEN [n \in 1..Len(d) |-> IF d[n][1] = key THEN <<key, value>> ELSE d[n]]
    ELSE Append(d, <<key, value>>)

DictKeys(d) == [n \in 1..Len(d) |-> d[n][1]]

\* ----------------------------------------------- the raster service
\* The state of the remote service: the images of COPERNICUS/S2_SR, whether
\* the vegetation reduction is served, and for each soil asset whether
\* bandNames is served, the bands it has, whether reduceRegion is served and
\* the zonal mean it returns (absent over a region without valid pixels).

Img(loc, date, cloud, b8, b4) ==
    [loc |-> loc, date |-> date, cloud |-> cloud, B8 |-> b8, B4 |-> b4]

\* NDVI 0.62, inside both windows, below the cloud threshold
BaseImage == Img("Kolkata, West Bengal", 1, 9, 8100, 1900)

\* the base image moved across each filter's boundary
FilterImages ==
    { Img("Nagpur, Maharashtra", 1, 9, 8100, 1900),
      Img("Kolkata, West Bengal", 0, 9, 8100, 1900),
      Img("Kolkata, West Bengal", 2, 9, 8100, 1900),
      Img("Kolkata, West Bengal", 1, 10, 8100, 1900),
      Img("Kolkata, West Bengal", 1, 11, 8100, 1900) }

\* B8 / B4 pairs giving NDVI 0.5, 0.5001, 0.2, 0.2001, 0.35, 0.6789, 0,
\* -0.2 and a masked pixel
BandPairs ==
    { <<7500, 2500>>, <<15001, 4999>>, <<6000, 4000>>, <<12001, 7999>>,
      <<6750, 3250>>, <<16789, 3211>>, <<5000, 5000>>, <<4000, 6000>>,
      <<0, 0>> }

NdviImages == {Img("Kolkata, West Bengal", 1, 9, bp[1], bp[2]) : bp \in BandPairs}

Catalog == {BaseImage} \cup FilterImages \cup NdviImages

Collections == {c \in SUBSET Catalog : Cardinality(c) <= MaxImages}

\* the zonal means of the four soil layers when they have one:
\* 12.3, 6.7891, 40.0, 25.0049
SoilMeans == << Tenths(123), TenThousandths(67891), Tenths(400),
                TenThousandths(250049) >>

LayerKinds == {"value", "zero", "empty", "reducefail", "noband", "down"}

Layer(i, kind) ==
    [bandNames |-> IF kind = "down" THEN "fail" ELSE "ok",
     bands |-> IF kind = "noband" THEN {"b0"} ELSE {"b0", SoilProps[i].band},
     reduce |-> IF kind = "reducefail" THEN "fail" ELSE "ok",
     mean |-> IF kind = "zero" THEN Some(0)
              ELSE IF kind = "empty" THEN None ELSE Some(SoilMeans[i])]

SoilOf(kinds) == [i \in PropIds |-> Layer(i, kinds[i])]

GoodSoil == SoilOf([i \in PropIds |-> "value"])

\* every collection of the catalog, over soil layers that all answer
VegSources ==
    {[coll |-> c, ndviCall |-> "ok", soil |-> GoodSoil] : c \in Collections}
    \cup {[coll |-> c, ndviCall |-> "fail", soil |-> GoodSoil] : c \in {{}, {BaseImage}}}

\* every combination of the four soil layers' states
SoilSources ==
    {[coll |-> {BaseImage}, ndviCall |-> n, soil |-> SoilOf(ks)] :
        n \in {"ok", "fail"}, ks \in [PropIds -> LayerKinds]}

Sources == VegSources \cup SoilSources

\* each soil layer answers or fails in one of two ways of its own
FailKinds == << {"noband", "down"}, {"down", "reducefail"},
                {"reducefail", "empty"}, {"empty", "noband"} >>

PairSources ==
    {[coll |-> {BaseImage}, ndviCall |-> "ok", soil |-> SoilOf(ks)] :
        ks \in {f \in [PropIds -> LayerKinds] :
                    \A i \in PropIds : f[i] \in FailKinds[i] \cup {"value"}}}

DefaultSource == [coll |-> {BaseImage}, ndviCall |-> "ok", soil |-> GoodSoil]

\* ------------------------------------------------------------ the state
VARIABLES
    source,             \* the raster service
    selected_location,  \* st.selectbox
    start_date,         \* st.date_input("Start Date")
    end_date,           \* st.date_input("End Date")
    pc,                 \* position of the script run
    s2,                 \* the filtered Sentinel-2 collection
    ndvi_img,           \* the NDVI composite
    mean_ndvi,          \* its zonal mean, or None
    status, color, ndvi_str,
    soil_info,          \* ordered dictionary key -> text
    vals,               \* oc_val, ph_val, sand_val, clay_val
    k,                  \* the soil property being read
    log,                \* the remote calls of this run, in order
    popup_text, marker, \* folium.Marker popup and icon color
    page,               \* what the Results section shows
    mem                 \* a completed earlier run: inputs, source, result

vars == << source, selected_location, start_date, end_date, pc, s2, ndvi_img,
           mean_ndvi, status, color, ndvi_str, soil_info, vals, k, log,
           popup_text, marker, page, mem >>

widgets == << selected_location, start_date, end_date >>
vegVars == << s2, ndvi_img, mean_ndvi, status, color, ndvi_str >>
soilVars == << soil_info, vals, k >>
outVars == << popup_text, marker, page >>

NoPage == [location |-> "", ndvi |-> "", status |-> "", soil |-> << >>]
NoMem == [set |-> FALSE, source |-> DefaultSource, location |-> "",
          start |-> 0, end |-> 0, ndvi_str |-> "", status |-> "",
          color |-> "", soil |-> << >>]

\* the script has not run: no name of the handler is bound
Fresh ==
    /\ s2 = {}
    /\ ndvi_img = NoImage
    /\ mean_ndvi = None
    /\ status = "" /\ color = "" /\ ndvi_str = ""
    /\ soil_info = << >>
    /\ vals = [i \in PropIds |-> None]
    /\ k = 0
    /\ log = << >>
    /\ popup_text = "" /\ marker = ""
    /\ page = NoPage

Init ==
    /\ source = DefaultSource
    /\ selected_location = "Kolkata, West Bengal"
    /\ start_date = 1
    /\ end_date = 3
    /\ pc = "idle"
    /\ Fresh
    /\ mem = NoMem

\* ------------------------------------------------------- the handler
Call(op, prop, buffer, scale) ==
    [op |-> op, prop |-> prop, buffer |-> buffer, scale |-> scale]

\* variant: the thresholds compared with >= in place of >
ClassificationInclusive(m) ==
    IF ~m.present
    THEN [status |-> "No Data", color |-> "gray", ndvi_str |-> "N/A"]
    ELSE IF m.val >= HealthyThreshold
    THEN [status |-> "Healthy", color |-> "green", ndvi_str |-> FormatNdvi(m.val)]
    ELSE IF m.val >= ModerateThreshold
    THEN [status |-> "Moderately Healthy", color |-> "orange",
          ndvi_str |-> FormatNdvi(m.val)]
    ELSE [status |-> "Non-Healthy", color |-> "red", ndvi_str |-> FormatNdvi(m.val)]

\* the if / elif chain on mean_ndvi: status, color, ndvi_str
Classification(m) ==
    IF ~m.present
    THEN [status |-> "No Data", color |-> "gray", ndvi_str |-> "N/A"]
    ELSE IF m.val > HealthyThreshold
    THEN [status |-> "Healthy", color |-> "green", ndvi_str |-> FormatNdvi(m.val)]
    ELSE IF m.val > ModerateThreshold
    THEN [status |-> "Moderately Healthy", color |-> "orange",
          ndvi_str |-> FormatNdvi(m.val)]
    ELSE [status |-> "Non-Healthy", color |-> "red", ndvi_str |-> FormatNdvi(m.val)]

\* variant: "if val" in place of "if val is not None"
SoilTextTruthy(v) ==
    IF v.present /\ v.val # 0 THEN FormatSoilNumber(v.val) ELSE "No Data"

\* f"{val:.2f}" if val is not None else "No Data"
SoilText(v) == IF v.present THEN FormatSoilNumber(v.val) ELSE "No Data"

\* popup_text: the NDVI and status lines, then one line per soil entry
RECURSIVE SoilLines(_)
SoilLines(d) ==
    IF d = << >> THEN ""
    ELSE d[1][1] \o ": " \o d[1][2] \o "\n" \o SoilLines(Tail(d))

PopupText(n, st, d) ==
    "NDVI: " \o n \o "\nStatus: " \o st \o "\n" \o SoilLines(d)

\* selectbox: another location is picked while no analysis runs
SelectLocation ==
    /\ pc = "idle"
    /\ \E loc \in Locations \ {selected_location} : selected_location' = loc
    /\ UNCHANGED << source, start_date, end_date, pc, vegVars, soilVars, log,
                    outVars, mem >>

\* date_input: another time window is picked while no analysis runs
SetDates ==
    /\ pc = "idle"
    /\ \E s \in StartDates, e \in EndDates :
          /\ << s, e >> # << start_date, end_date >>
          /\ start_date' = s
          /\ end_date' = e
    /\ UNCHANGED << source, selected_location, pc, vegVars, soilVars, log,
                    outVars, mem >>

\* the sources that differ from src in one image of the collection, in
\* whether the vegetation reduction is served, or in one soil layer
Neighbours(src) ==
    {[src EXCEPT !.coll = src.coll \cup {img}] : img \in Catalog \ src.coll}
    \cup {[src EXCEPT !.coll = src.coll \ {img}] : img \in src.coll}
    \cup {[src EXCEPT !.ndviCall = n] : n \in {"ok", "fail"} \ {src.ndviCall}}
    \cup {[src EXCEPT !.soil[i] = Layer(i, kind)] : i \in PropIds, kind \in LayerKinds}

\* the raster service changes between two runs
SourceUpdate(S) ==
    /\ pc = "idle"
    /\ \E src \in Neighbours(source) \ {source} :
          /\ src \in S
          /\ source' = src
    /\ UNCHANGED << widgets, pc, vegVars, soilVars, log, outVars, mem >>

\* the button is pressed: point, s2 and ndvi_img are built
Analyze ==
    /\ pc = "idle"
    /\ s2' = S2Filtered(source.coll, selected_location, start_date, end_date)
    /\ ndvi_img' = Composite(s2')
    /\ pc' = "ndvi"
    /\ UNCHANGED << source, widgets, mean_ndvi, status, color, ndvi_str,
                    soilVars, log, outVars, mem >>

\* try: ndvi_img.reduceRegion(mean, point.buffer(30), 10).get("NDVI").getInfo()
\* The call raises when the service fails; over a composite without bands it
\* raises or yields no value; otherwise it yields the (possibly masked) mean.
NdviReduce ==
    /\ pc = "ndvi"
    /\ log' = Append(log, Call("ndvi.reduceRegion", 0, NdviBuffer, NdviScale))
    /\ IF source.ndviCall = "fail"
       THEN pc' = "ndvi_except" /\ UNCHANGED mean_ndvi
       ELSE IF ndvi_img.empty
       THEN \/ pc' = "ndvi_except" /\ UNCHANGED mean_ndvi
            \/ pc' = "classify" /\ mean_ndvi' = None
       ELSE pc' = "classify" /\ mean_ndvi' = ndvi_img.px
    /\ UNCHANGED << source, widgets, s2, ndvi_img, status, color, ndvi_str,
                    soilVars, outVars, mem >>

\* except Exception: mean_ndvi = None
NdviExcept ==
    /\ pc = "ndvi_except"
    /\ mean_ndvi' = None
    /\ pc' = "classify"
    /\ UNCHANGED << source, widgets, s2, ndvi_img, status, color, ndvi_str,
                    soilVars, log, outVars, mem >>

\* variant: the soil section is entered only when the index has a value
ClassifySkipSoil ==
    /\ pc = "classify"
    /\ LET c == Classification(mean_ndvi)
       IN  /\ status' = c.status
           /\ color' = c.color
           /\ ndvi_str' = c.ndvi_str
    /\ soil_info' = << >>
    /\ IF mean_ndvi.present
       THEN k' = 1 /\ pc' = "soil_bands"
       ELSE k' = 0 /\ pc' = "map"
    /\ UNCHANGED << source, widgets, s2, ndvi_img, mean_ndvi, vals, log, outVars,
                    mem >>

\* the if / elif chain, then soil_info = {}
Classify ==
    /\ pc = "classify"
    /\ LET c == Classification(mean_ndvi)
       IN  /\ status' = c.status
           /\ color' = c.color
           /\ ndvi_str' = c.ndvi_str
    /\ soil_info' = << >>
    /\ k' = 1
    /\ pc' = "soil_bands"
    /\ UNCHANGED << source, widgets, s2, ndvi_img, mean_ndvi, vals, log, outVars,
                    mem >>

\* variant: the membership test on bands is left out
SoilBandNamesUnchecked ==
    /\ pc = "soil_bands"
    /\ log' = Append(log, Call("bandNames", k, 0, 0))
    /\ IF source.soil[k].bandNames = "fail"
       THEN pc' = "soil_except" /\ UNCHANGED vals
       ELSE pc' = "soil_reduce" /\ UNCHANGED vals
    /\ UNCHANGED << source, widgets, vegVars, soil_info, k, outVars, mem >>

\* get_soil_value: bands = img.bandNames().getInfo(), then the membership
\* test; a missing band returns None
SoilBandNames ==
    /\ pc = "soil_bands"
    /\ log' = Append(log, Call("bandNames", k, 0, 0))
    /\ IF source.soil[k].bandNames = "fail"
       THEN pc' = "soil_except" /\ UNCHANGED vals
       ELSE IF SoilProps[k].band \notin source.soil[k].bands
       THEN pc' = "soil_store" /\ vals' = [vals EXCEPT ![k] = None]
       ELSE pc' = "soil_reduce" /\ UNCHANGED vals
    /\ UNCHANGED << source, widgets, vegVars, soil_info, k, outVars, mem >>

\* get_soil_value: val = img.reduceRegion(mean, point.buffer(250), 250)
\*                       .get(band_name).getInfo(); return val
SoilReduce ==
    /\ pc = "soil_reduce"
    /\ log' = Append(log, Call("reduceRegion", k, SoilBuffer, SoilScale))
    /\ IF source.soil[k].reduce = "fail"
       THEN pc' = "soil_except" /\ UNCHANGED vals
       ELSE pc' = "soil_store" /\ vals' = [vals EXCEPT ![k] = source.soil[k].mean]
    /\ UNCHANGED << source, widgets, vegVars, soil_info, k, outVars, mem >>

\* variant: get_soil_value without its try / except: the exception leaves
\* the handler
SoilExceptRaise ==
    /\ pc = "soil_except"
    /\ pc' = "error"
    /\ UNCHANGED << source, widgets, vegVars, soilVars, log, outVars, mem >>

\* variant: one try / except around all the soil fetches: the failing
\* property and those after it are stored as "No Data"
SoilExceptRest ==
    /\ pc = "soil_except"
    /\ vals' = [i \in PropIds |-> IF i >= k THEN None ELSE vals[i]]
    /\ soil_info' = soil_info \o
          [n \in 1..(Len(SoilProps) - k + 1) |-> << SoilProps[k + n - 1].key, "No Data" >>]
    /\ k' = Len(SoilProps)
    /\ pc' = "map"
    /\ UNCHANGED << source, widgets, vegVars, log, outVars, mem >>

\* get_soil_value: except Exception: return None
SoilExcept ==
    /\ pc = "soil_except"
    /\ vals' = [vals EXCEPT ![k] = None]
    /\ pc' = "soil_store"
    /\ UNCHANGED << source, widgets, vegVars, soil_info, k, log, outVars, mem >>

\* variant: the entries are kept in a container without insertion order: a
\* new entry may come out before or after the ones already there
SoilStoreUnordered ==
    /\ pc = "soil_store"
    /\ \E at \in {0, Len(soil_info)} :
          soil_info' = SubSeq(soil_info, 1, at)
                       \o << << SoilProps[k].key, SoilText(vals[k]) >> >>
                       \o SubSeq(soil_info, at + 1, Len(soil_info))
    /\ IF k < Len(SoilProps)
       THEN k' = k + 1 /\ pc' = "soil_bands"
       ELSE k' = k /\ pc' = "map"
    /\ UNCHANGED << source, widgets, vegVars, vals, log, outVars, mem >>

\* soil_info[key] = f"{val:.2f}" if val is not None else "No Data",
\* then the next property, or the map once all four are stored
SoilStore ==
    /\ pc = "soil_store"
    /\ soil_info' = DictSet(soil_info, SoilProps[k].key, SoilText(vals[k]))
    /\ IF k < Len(SoilProps)
       THEN k' = k + 1 /\ pc' = "soil_bands"
       ELSE k' = k /\ pc' = "map"
    /\ UNCHANGED << source, widgets, vegVars, vals, log, outVars, mem >>

\* the map: popup_text and the marker with icon color (the tile layer that
\* m.add_layer requests for the map display is not part of the state)
BuildMarker ==
    /\ pc = "map"
    /\ popup_text' = PopupText(ndvi_str, status, soil_info)
    /\ marker' = color
    /\ pc' = "results"
    /\ UNCHANGED << source, widgets, vegVars, soilVars, log, page, mem >>

\* the Results section: location, NDVI line, st.json(soil_info)
ShowResults ==
    /\ pc = "results"
    /\ page' = [location |-> selected_location, ndvi |-> ndvi_str,
                status |-> status, soil |-> soil_info]
    /\ pc' = "done"
    /\ UNCHANGED << source, widgets, vegVars, soilVars, log, popup_text,
                    marker, mem >>

\* the script run ends; its names are gone when the script next runs
EndScript ==
    /\ pc = "done"
    /\ pc' = "idle"
    /\ s2' = {}
    /\ ndvi_img' = NoImage
    /\ mean_ndvi' = None
    /\ status' = "" /\ color' = "" /\ ndvi_str' = ""
    /\ soil_info' = << >>
    /\ vals' = [i \in PropIds |-> None]
    /\ k' = 0
    /\ log' = << >>
    /\ popup_text' = "" /\ marker' = ""
    /\ page' = NoPage
    /\ UNCHANGED << source, widgets >>

\* the run ends unobserved
EndRun ==
    /\ EndScript
    /\ UNCHANGED mem

\* the run ends and the observer keeps what it showed, to compare a later
\* run with
Remember ==
    /\ EndScript
    /\ mem' = [set |-> TRUE, source |-> source, location |-> selected_location,
               start |-> start_date, end |-> end_date, ndvi_str |-> page.ndvi,
               status |-> page.status, color |-> marker, soil |-> page.soil]
    /\ mem' # mem

\* one step of a running analysis
RunStep ==
    \/ NdviReduce \/ NdviExcept \/ Classify
    \/ SoilBandNames \/ SoilReduce \/ SoilExcept \/ SoilStore
    \/ BuildMarker \/ ShowResults

UpdateAny == SourceUpdate(Sources)
UpdatePair == SourceUpdate(PairSources)

Next ==
    \/ SelectLocation \/ SetDates \/ UpdateAny
    \/ Analyze \/ RunStep \/ EndRun

Spec == Init /\ [][Next]_vars

\* the same program watched across runs, over the sources PairSources
NextPair ==
    \/ SelectLocation \/ UpdatePair
    \/ Analyze \/ RunStep \/ EndRun \/ Remember

SpecPair == Init /\ [][NextPair]_vars

\* ------------------------------------------------------------ properties
Categories == {"No Data", "Healthy", "Moderately Healthy", "Non-Healthy"}

SoilKeys == << "Organic Carbon (g/kg)", "Soil pH (H2O)", "Sand Fraction (%)",
               "Clay Fraction (%)" >>

\* the status, color and display string have been assigned
Classified ==
    pc \in {"soil_bands", "soil_reduce", "soil_except", "soil_store", "map",
            "results", "done"}

\* the vegetation outcome and the four soil entries are assembled
AnalysisDone == pc \in {"map", "results", "done"}

\* what a fetch of property i must return for a given state of its layer
LayerReading(i, layer) ==
    IF \/ layer.bandNames = "fail"
       \/ SoilProps[i].band \notin layer.bands
       \/ layer.reduce = "fail"
    THEN None
    ELSE layer.mean

\* the text in parentheses in each dictionary key
KeyUnits == << "g/kg", "H2O", "%", "%" >>

\* the positions of the log where property i is reduced / asked for its bands
ReduceCalls(i) ==
    {n \in 1..Len(log) : log[n].op = "reduceRegion" /\ log[n].prop = i}
BandCalls(i) ==
    {n \in 1..Len(log) : log[n].op = "bandNames" /\ log[n].prop = i}

\* C1: the category is No Data iff the index is absent, Healthy iff it is
\* present and above 0.5, Moderately Healthy iff present and in (0.2, 0.5],
\* Non-Healthy iff present and at most 0.2; it is always one of the four.
C1_Classification ==
    Classified =>
        /\ status \in Categories
        /\ (status = "No Data") <=> ~mean_ndvi.present
        /\ (status = "Healthy") <=> (mean_ndvi.present /\ mean_ndvi.val > Tenths(5))
        /\ (status = "Moderately Healthy") <=>
              (mean_ndvi.present /\ mean_ndvi.val > Tenths(2)
                                 /\ mean_ndvi.val <= Tenths(5))
        /\ (status = "Non-Healthy") <=>
              (mean_ndvi.present /\ mean_ndvi.val <= Tenths(2))

\* an index of exactly 0.5 has been classified Moderately Healthy
C1_Witness ==
    /\ Classified
    /\ mean_ndvi = Some(Tenths(5))
    /\ status = "Moderately Healthy"

SameInputs ==
    /\ mem.set
    /\ mem.location = selected_location
    /\ mem.start = start_date
    /\ mem.end = end_date

\* the remembered run saw the service of this run but for soil layer j
DiffersOnlyAt(j) ==
    /\ mem.source.coll = source.coll
    /\ mem.source.ndviCall = source.ndviCall
    /\ mem.source.soil[j] # source.soil[j]
    /\ \A i \in PropIds \ {j} : mem.source.soil[i] = source.soil[i]

\* C3: two runs on the same inputs whose services differ in one soil layer
\* only (one answers, the other fails) show the same entries for the other
\* three properties and the same vegetation string, category and color.
C3_Isolation ==
    (pc = "done" /\ SameInputs) =>
        \A j \in PropIds :
            DiffersOnlyAt(j) =>
                /\ Len(page.soil) = Len(mem.soil)
                /\ \A i \in PropIds \ {j} : page.soil[i] = mem.soil[i]
                /\ page.ndvi = mem.ndvi_str
                /\ page.status = mem.status
                /\ marker = mem.color

\* the pH fetch answered in the remembered run and raises in this one,
\* and sand and clay are still shown with their values
C3_Witness ==
    /\ pc = "done"
    /\ SameInputs
    /\ DiffersOnlyAt(2)
    /\ mem.source.soil[2] = Layer(2, "value")
    /\ source.soil[2] = Layer(2, "down")
    /\ mem.soil[2][2] = "6.79"
    /\ page.soil[2][2] = "No Data"
    /\ page.soil[3][2] = "40.00"
    /\ page.soil[4][2] = "25.00"

C5_ZeroWithUnit ==
    AnalysisDone =>
        \A i \in PropIds :
            /\ (soil_info[i][2] = "No Data") <=> ~vals[i].present
            /\ (vals[i] = Some(0)) => soil_info[i][2] = "0.00 " \o KeyUnits[i]

\* C5: an entry is "No Data" iff the fetch returned None; a reading of
\* exactly 0.0 is shown as the number "0.00", with no unit after it.
C5_ZeroIsData ==
    AnalysisDone =>
        /\ Len(soil_info) = Len(SoilKeys)
        /\ \A i \in PropIds :
              /\ (soil_info[i][2] = "No Data") <=> ~vals[i].present
              /\ (vals[i] = Some(0)) => soil_info[i][2] = "0.00"
              /\ (source.soil[i] = Layer(i, "zero")) => soil_info[i][2] = "0.00"

\* a zero reading of organic carbon is shown as "0.00"
C5_Witness ==
    /\ pc = "done"
    /\ vals[1] = Some(0)
    /\ page.soil[1] = << "Organic Carbon (g/kg)", "0.00" >>

\* C6: a reduction of a soil layer directly follows the bandNames call of
\* the same property, which was served and listed the band; a property
\* whose band is missing is never reduced and reads None.
C6_BandCheckFirst ==
    /\ \A n \in 1..Len(log) :
          (log[n].op = "reduceRegion") =>
              /\ n > 1
              /\ log[n - 1] = Call("bandNames", log[n].prop, 0, 0)
              /\ source.soil[log[n].prop].bandNames = "ok"
              /\ SoilProps[log[n].prop].band \in source.soil[log[n].prop].bands
    /\ AnalysisDone =>
          \A i \in PropIds :
              (SoilProps[i].band \notin source.soil[i].bands) =>
                  /\ ReduceCalls(i) = {}
                  /\ ~vals[i].present

\* organic carbon lacks its band and was not reduced; pH was reduced
C6_Witness ==
    /\ pc = "done"
    /\ source.soil[1] = Layer(1, "noband")
    /\ BandCalls(1) # {}
    /\ ReduceCalls(1) = {}
    /\ ReduceCalls(2) # {}
    /\ page.soil[1][2] = "No Data"

\* C7: a run on the inputs and the service of a remembered run shows the
\* same vegetation string, category and color and the same soil entries in
\* the same order.
C7_Idempotent ==
    (pc = "done" /\ SameInputs /\ mem.source = source) =>
        /\ page.ndvi = mem.ndvi_str
        /\ page.status = mem.status
        /\ marker = mem.color
        /\ page.soil = mem.soil

\* a later run on the inputs and the service of the remembered run, with
\* soil layers that partly fail
C7_Witness ==
    /\ pc = "done"
    /\ SameInputs
    /\ mem.source = source
    /\ source.soil[1] = Layer(1, "noband")
    /\ source.soil[3] = Layer(3, "value")
    /\ page.soil = mem.soil
    /\ page.soil[3][2] = "40.00"
    /\ page.ndvi = "0.620"

\* C8 as first stated: a present reading is shown as its value to two
\* decimal places followed by the unit.
C8_ValueThenUnit ==
    AnalysisDone =>
        \A i \in PropIds :
            vals[i].present =>
                soil_info[i][2] = FormatFixed(vals[i].val, 2) \o " " \o KeyUnits[i]

\* C8: a present reading is shown as its value to two decimal places and
\* nothing else, under the key that carries the unit; an absent reading is
\* shown as "No Data"; the popup line is "key: text".
C8_TwoDecimals ==
    AnalysisDone =>
        /\ Len(soil_info) = Len(SoilKeys)
        /\ \A i \in PropIds :
              /\ soil_info[i][1] = SoilKeys[i]
              /\ vals[i].present => soil_info[i][2] = FormatFixed(vals[i].val, 2)
              /\ (vals[i] = Some(Tenths(123))) => soil_info[i][2] = "12.30"
              /\ (vals[i] = Some(TenThousandths(67891))) => soil_info[i][2] = "6.79"
              /\ ~vals[i].present => soil_info[i][2] = "No Data"
        /\ (pc = "done") =>
              popup_text = "NDVI: " \o ndvi_str \o "\nStatus: " \o status \o "\n"
                  \o SoilKeys[1] \o ": " \o soil_info[1][2] \o "\n"
                  \o SoilKeys[2] \o ": " \o soil_info[2][2] \o "\n"
                  \o SoilKeys[3] \o ": " \o soil_info[3][2] \o "\n"
                  \o SoilKeys[4] \o ": " \o soil_info[4][2] \o "\n"

\* a reading of 12.3 is shown as "12.30", an absent one as "No Data"
C8_Witness ==
    /\ pc = "done"
    /\ vals[1] = Some(Tenths(123))
    /\ soil_info[1] = << "Organic Carbon (g/kg)", "12.30" >>
    /\ ~vals[2].present
    /\ soil_info[2] = << "Soil pH (H2O)", "No Data" >>

\* C9: the color and the display string go with the category: gray and
\* "N/A" with No Data, green with Healthy, orange with Moderately Healthy,
\* red with Non-Healthy, the string being the index to three decimal places
\* in the numeric categories; "N/A", gray and an absent index coincide; the
\* marker carries the color.
C9_ColorAndDisplay ==
    /\ Classified =>
          /\ (status = "No Data") => (color = "gray" /\ ndvi_str = "N/A")
          /\ (status = "Healthy") => color = "green"
          /\ (status = "Moderately Healthy") => color = "orange"
          /\ (status = "Non-Healthy") => color = "red"
          /\ (status # "No Data") => ndvi_str = FormatFixed(mean_ndvi.val, 3)
          /\ (ndvi_str = "N/A") <=> (color = "gray")
          /\ (color = "gray") <=> ~mean_ndvi.present
          /\ (mean_ndvi = Some(Hundredths(62))) => ndvi_str = "0.620"
          /\ (mean_ndvi = Some(Hundredths(35))) => ndvi_str = "0.350"
          /\ (mean_ndvi = Some(TenThousandths(6789))) => ndvi_str = "0.679"
          /\ (mean_ndvi = Some(0 - Tenths(2))) => ndvi_str = "-0.200"
    /\ (pc \in {"results", "done"}) => marker = color

\* an index of 0.6789 is on the page as "0.679", Healthy, green marker
C9_Witness ==
    /\ pc = "done"
    /\ mean_ndvi = Some(TenThousandths(6789))
    /\ page.ndvi = "0.679"
    /\ page.status = "Healthy"
    /\ marker = "green"

\* the image covers the point and lies in the time window
InScope(img) ==
    /\ img.loc = selected_location
    /\ start_date <= img.date
    /\ img.date < end_date

\* C10 as first stated: an image over the point and in the window is kept
\* iff its cloudy-pixel percentage is at most 10.
C10_AtMostTen ==
    (pc # "idle") =>
        \A img \in source.coll : InScope(img) => (img \in s2 <=> img.cloud <= 10)

\* C10: an image over the point and in the window is kept iff its
\* cloudy-pixel percentage is below 10; nothing else is kept.
C10_BelowTen ==
    (pc # "idle") =>
        /\ \A img \in source.coll : InScope(img) => (img \in s2 <=> img.cloud < 10)
        /\ \A img \in s2 : img \in source.coll /\ InScope(img)

\* of two images in scope, the one at exactly 10% is dropped
C10_Witness ==
    /\ pc = "done"
    /\ \E a \in source.coll, b \in source.coll :
          /\ InScope(a) /\ a.cloud = 10 /\ a \notin s2
          /\ InScope(b) /\ b.cloud = 9 /\ b \in s2

=============================================================================
